---- MODULE Spec2Model ----
(***************************************************************************)
(* The todo server of TomRoum/Todo-React-WebApp as a state machine: the    *)
(* account and task tables, the user controller (signup, signin, login,    *)
(* logout), the auth middleware in front of logout, the task router, and   *)
(* the global error handler. Every request is a small process: one step    *)
(* per await of its handler, so that requests interleave at the same       *)
(* places as on the node event loop.                                       *)
(***************************************************************************)
EXTENDS Integers, FiniteSets, Sequences, TLC

VARIABLES
  accounts,     \* rows of table account: [id, email, password]
  accountSeq,   \* last value drawn from the SERIAL sequence of account.id
  tasks,        \* rows of table task: [id, description]
  taskSeq,      \* last value drawn from the SERIAL sequence of task.id
  now,          \* the wall clock, in ticks of half an hour
  req,          \* the requests in flight, one per slot
  last,         \* the request answered most recently, with its response
  held,         \* the Authorization value the client last kept from a response
  registered,   \* history: email -> password of the signup answered 201 ("" if none)
  served,       \* history: the logouts and creations served under a fresh token
  nreq,         \* number of requests received since the initial state
  client,       \* the browser: location, localStorage, context and screen state
  sent,         \* the responses on their way to the browser, by slot
  todo          \* the state of the todo list that keeps its tasks in the component

vars ==
  <<accounts, accountSeq, tasks, taskSeq, now, req, last, held, registered, served, nreq,
    client, sent, todo>>

----------------------------------------------------------------------------
(* Bounds of the model *)

NumSlots == 2
MaxRequests == 3
MaxTime == 2

(* '1h' of sign(..., { expiresIn: '1h' }), in clock ticks of half an hour *)
TokenTTL == 2

Slots == 1..NumSlots
Salts == {"$2b$10$N9qo8uLOickgx2ZMRZoMye"}
Emails == {"a@x", "A@x"}
Passwords == {"p", "q"}
JWT_SECRET == "process.env.JWT_SECRET"

----------------------------------------------------------------------------
(* Request bodies and headers *)

NoUser == [present |-> FALSE, email |-> "", password |-> ""]
UserBodies ==
  {NoUser}
    \cup {[present |-> TRUE, email |-> e, password |-> p] : e \in Emails, p \in Passwords}
    \cup {[present |-> TRUE, email |-> "", password |-> "p"],
          [present |-> TRUE, email |-> "a@x", password |-> ""]}

NoTask == [present |-> FALSE, description |-> ""]
TaskBodies ==
  {NoTask, [present |-> TRUE, description |-> ""], [present |-> TRUE, description |-> " "],
   [present |-> TRUE, description |-> "x"]}

(* the :id of DELETE /delete/:id, after parseInt *)
TaskIds == {1, 2, 99999}

Absent == [form |-> "absent"]
Malformed == [form |-> "malformed"]

(* jwt.sign(payload, secret, { expiresIn: '1h' }): the payload with iat and exp,
   signed with the key *)
Sign(payload, key, t) ==
  [form |-> "jwt", claims |-> payload, iat |-> t, exp |-> t + TokenTTL, key |-> key]

Forged(t) == Sign([id |-> 1, email |-> "a@x"], "another secret", t)

----------------------------------------------------------------------------
(* Errors and the global error handler *)

NoError == [message |-> "", status |-> 0, code |-> ""]
ApiError(message, status) == [message |-> message, status |-> status, code |-> ""]
PgUniqueViolation ==
  [message |-> "duplicate key value violates unique constraint", status |-> 0,
   code |-> "23505"]
PgFault == [message |-> "connection terminated", status |-> 0, code |-> "08006"]

(* err.status with nothing to fall back on *)
StatusCodeRaw(err) == err.status

StatusCode(err) == IF err.status # 0 THEN err.status ELSE 500

ErrorBody(err) == [error |-> [message |-> err.message, status |-> StatusCode(err)]]

----------------------------------------------------------------------------
(* bcrypt *)

NoDigest == [alg |-> "none"]

Hash(password, salt) == [alg |-> "bcrypt", cost |-> 10, salt |-> salt, of |-> password]

Compare(password, digest) ==
  /\ digest.alg = "bcrypt"
  /\ digest = Hash(password, digest.salt)

----------------------------------------------------------------------------
(* The account table *)

(* the lookup on a case-insensitive column *)
Lower(email) == IF email = "A@x" THEN "a@x" ELSE email
EmailEqNoCase(stored, given) == Lower(stored) = Lower(given)

(* email = $1 on a VARCHAR column *)
EmailEq(stored, given) == stored = given

FindUserByEmail(email) == {a \in accounts : EmailEq(a.email, email)}

UniqueEmail(email) == \A a \in accounts : a.email # email

NoRow == [id |-> 0]

----------------------------------------------------------------------------
(* jsonwebtoken's verify and the auth middleware *)

(* the expiry instant itself still admitted *)
ExpiredLate(token, t) == t > token.exp

(* clockTimestamp >= payload.exp *)
Expired(token, t) == t >= token.exp

(* verify(token, secret, callback): the error handed to the callback, "" if none *)
Verify(token, key, t) ==
  IF token.form = "absent" THEN "jwt must be provided"
  ELSE IF token.form # "jwt" THEN "jwt malformed"
  ELSE IF token.key # key THEN "invalid signature"
  ELSE IF Expired(token, t) THEN "jwt expired"
  ELSE ""

(* a middleware that also wants the id claim of the decoded payload *)
AuthNeedsId(header, t) ==
  /\ Verify(header, JWT_SECRET, t) = ""
  /\ "id" \in DOMAIN header.claims

(* a middleware with a denylist: a token is refused once a logout carried it *)
AuthRevocable(header, t) ==
  /\ Verify(header, JWT_SECRET, t) = ""
  /\ [kind |-> "logout", auth |-> header, id |-> 0] \notin served

(* the middleware calls next() exactly when verify hands it no error *)
Auth(header, t) == Verify(header, JWT_SECRET, t) = ""

AuthRejectBody == [error |-> [message |-> "Unauthorized", status |-> 401]]

(* the header is a token signed with the server's secret: one that login or
   signin minted *)
Minted(header) == header.form = "jwt" /\ header.key = JWT_SECRET

(* a minted token presented less than one hour after it was minted *)
Fresh(header, t) == Minted(header) /\ t < header.iat + TokenTTL

----------------------------------------------------------------------------
(* Requests *)

NoBody == [nothing |-> TRUE]

(* A request: what came in (kind, user, task, auth), where its handler stands
   (pc) with its locals (row, hashed), and, once answered, the error handed to
   next() if any (err) and the response (status, body); id is the :id of a
   delete. History kept for the properties: ack and taken (below), at, the time
   a request carrying an Authorization header came in, and again, whether a
   logout carrying the same header had been served before. *)
IdleReq ==
  [kind |-> "idle", pc |-> "idle", user |-> NoUser, task |-> NoTask, auth |-> Absent,
   id |-> 0, row |-> NoRow, hashed |-> NoDigest, err |-> NoError, status |-> 0,
   body |-> NoBody, ack |-> "", taken |-> FALSE, at |-> 0, again |-> FALSE]

(* a validation that only looks for the user object *)
MissingCredentialsLax(u) == ~u.present

(* !user || !user.email || !user.password *)
MissingCredentials(u) == ~u.present \/ u.email = "" \/ u.password = ""

(* history: the email was in the account table when the request's query ran
   (field taken; for a delete, see Deleting) *)
Stored(email) == \E a \in accounts : a.email = email
Queried(q) == [q EXCEPT !.taken = Stored(q.user.email)]

(* history: the password of the signup already answered 201 for this email *)
Ack(u) == IF u.email \in Emails THEN registered[u.email] ELSE ""

(* next(err): the global error handler answers *)
Fail(q, err) ==
  [q EXCEPT !.pc = "done", !.err = err, !.status = StatusCode(err), !.body = ErrorBody(err)]

(* res.status(status).json(body) *)
Reply(q, status, body) == [q EXCEPT !.pc = "done", !.status = status, !.body = body]

(* history: a request served under a fresh token *)
Served(kind, h, id) == [kind |-> kind, auth |-> h, id |-> id]

Receive(kind, u, t, h) ==
  [IdleReq EXCEPT !.kind = kind, !.user = u, !.task = t, !.auth = h, !.ack = Ack(u),
                  !.at = IF kind \in {"logout", "create"} THEN now ELSE 0,
                  !.again = Served("logout", h, 0) \in served]

Headers == {Absent, Malformed, Forged(now), held}

(* the handler awaits: the request stays in flight *)
Await(r, q) ==
  /\ req' = [req EXCEPT ![r] = q]
  /\ UNCHANGED <<last, sent>>

(* what the browser is given of an answered request *)
Response(q) == [status |-> q.status, body |-> q.body]
NoResponse == [status |-> 0, body |-> NoBody]

(* the response is sent: the request leaves its slot, and the response travels
   to the browser if the browser's fetch is waiting for it *)
Respond(r, q) ==
  /\ req' = [req EXCEPT ![r] = IdleReq]
  /\ last' = q
  /\ sent' = IF client'.pending[r].op # "none"
              THEN [sent EXCEPT ![r] = Response(q)]
              ELSE sent

----------------------------------------------------------------------------
(* POST /user/signup *)

(* the pre-check with its comparison off by one, in either direction *)
EmailExistsAlways(rows) == Cardinality(rows) >= 0
EmailExistsNever(rows) == Cardinality(rows) > 1

EmailExists(rows) == Cardinality(rows) > 0

(* signup, up to its first await *)
PostUserSignup(r, u) ==
  LET q == Receive("signup", u, NoTask, Absent) IN
  IF MissingCredentials(u)
  THEN Respond(r, Fail(q, ApiError("Email and password are required", 400)))
  ELSE Await(r, [q EXCEPT !.pc = "find"])

StartSignup(r) ==
  /\ req[r].kind = "idle"
  /\ nreq < MaxRequests
  /\ UNCHANGED <<client, todo>>
  /\ \E u \in UserBodies : PostUserSignup(r, u)
  /\ nreq' = nreq + 1
  /\ UNCHANGED <<accounts, accountSeq, tasks, taskSeq, now, held, registered, served>>

SignupFind(r) ==
  /\ req[r].kind = "signup"
  /\ req[r].pc = "find"
  /\ UNCHANGED <<client, todo>>
  /\ LET q == Queried(req[r])
         existingUser == FindUserByEmail(q.user.email) IN
       \/ Respond(r, Fail(req[r], PgFault))
       \/ IF EmailExists(existingUser)
          THEN Respond(r, Fail(q, ApiError("Email already exists", 409)))
          ELSE Await(r, [q EXCEPT !.pc = "hash"])
  /\ UNCHANGED <<accounts, accountSeq, tasks, taskSeq, now, held, registered, served, nreq>>

SignupHash(r) ==
  /\ req[r].kind = "signup"
  /\ req[r].pc = "hash"
  /\ UNCHANGED <<client, todo>>
  /\ \E salt \in Salts :
       LET hashedPassword == Hash(req[r].user.password, salt) IN
       Await(r, [req[r] EXCEPT !.pc = "insert", !.hashed = hashedPassword])
  /\ UNCHANGED <<accounts, accountSeq, tasks, taskSeq, now, held, registered, served, nreq>>

(* INSERT INTO account (email, password) VALUES ($1, $2) RETURNING id, email *)
SignupInsert(r) ==
  /\ req[r].kind = "signup"
  /\ req[r].pc = "insert"
  /\ UNCHANGED <<client, todo>>
  /\ LET q == Queried(req[r])
         row == [id |-> accountSeq + 1, email |-> q.user.email, password |-> q.hashed] IN
       \/ /\ Respond(r, Fail(req[r], PgFault))
          /\ UNCHANGED <<accounts, accountSeq, registered, served>>
       \/ /\ ~UniqueEmail(q.user.email)
          /\ Respond(r, Fail(q, PgUniqueViolation))
          /\ accountSeq' = accountSeq + 1
          /\ UNCHANGED <<accounts, registered, served>>
       \/ /\ UniqueEmail(q.user.email)
          /\ accounts' = accounts \cup {row}
          /\ accountSeq' = accountSeq + 1
          /\ Respond(r, Reply(q, 201, [id |-> row.id, email |-> row.email]))
          /\ registered' = [registered EXCEPT ![q.user.email] = q.user.password]
          /\ UNCHANGED served
  /\ UNCHANGED <<tasks, taskSeq, now, held, nreq>>

----------------------------------------------------------------------------
(* POST /user/signin *)

SigninUnknownError == ApiError("User not found", 404)
SigninMismatchError == ApiError("Invalid password", 401)
SigninClaims(dbUser) == [user |-> dbUser.email]
SigninMatch(password, dbUser) == Compare(password, dbUser.password)

(* signin, up to its first await *)
PostUserSignin(r, u) ==
  LET q == Receive("signin", u, NoTask, Absent) IN
  IF MissingCredentials(u)
  THEN Respond(r, Fail(q, ApiError("Email and password are required", 400)))
  ELSE Await(r, [q EXCEPT !.pc = "find"])

StartSignin(r) ==
  /\ req[r].kind = "idle"
  /\ nreq < MaxRequests
  /\ UNCHANGED <<client, todo>>
  /\ \E u \in UserBodies : PostUserSignin(r, u)
  /\ nreq' = nreq + 1
  /\ UNCHANGED <<accounts, accountSeq, tasks, taskSeq, now, held, registered, served>>

SigninFind(r) ==
  /\ req[r].kind = "signin"
  /\ req[r].pc = "find"
  /\ UNCHANGED <<client, todo>>
  /\ LET q == Queried(req[r])
         rows == FindUserByEmail(q.user.email) IN
       \/ Respond(r, Fail(req[r], PgFault))
       \/ IF Cardinality(rows) = 0
          THEN Respond(r, Fail(q, SigninUnknownError))
          ELSE Await(r, [q EXCEPT !.pc = "compare", !.row = CHOOSE a \in rows : TRUE])
  /\ UNCHANGED <<accounts, accountSeq, tasks, taskSeq, now, held, registered, served, nreq>>

SigninCompare(r) ==
  /\ req[r].kind = "signin"
  /\ req[r].pc = "compare"
  /\ UNCHANGED <<client, todo>>
  /\ LET q == req[r]
         dbUser == q.row
         isMatch == SigninMatch(q.user.password, dbUser)
         token == Sign(SigninClaims(dbUser), JWT_SECRET, now) IN
       IF ~isMatch
       THEN Respond(r, Fail(q, SigninMismatchError))
       ELSE Respond(r, Reply(q, 200, [id |-> dbUser.id, email |-> dbUser.email, token |-> token]))
  /\ UNCHANGED <<accounts, accountSeq, tasks, taskSeq, now, held, registered, served, nreq>>

----------------------------------------------------------------------------
(* POST /user/login *)

(* the miss answered the way signin answers it *)
LoginUnknownLeaks == ApiError("User not found", 404)

LoginUnknownError == ApiError("Invalid email or password", 401)
LoginMismatchError == ApiError("Invalid email or password", 401)
(* the whole row signed into the token *)
LoginClaimsRow(foundUser) == foundUser

LoginClaims(foundUser) == [id |-> foundUser.id, email |-> foundUser.email]
(* the result of compare never looked at *)
LoginMatchAny(password, foundUser) == TRUE

LoginMatch(password, foundUser) == Compare(password, foundUser.password)

StartLogin(r) ==
  /\ req[r].kind = "idle"
  /\ nreq < MaxRequests
  /\ UNCHANGED <<client, todo>>
  /\ \E u \in UserBodies :
       LET q == Receive("login", u, NoTask, Absent) IN
       IF MissingCredentials(u)
       THEN Respond(r, Fail(q, ApiError("Email and password are required", 400)))
       ELSE Await(r, [q EXCEPT !.pc = "find"])
  /\ nreq' = nreq + 1
  /\ UNCHANGED <<accounts, accountSeq, tasks, taskSeq, now, held, registered, served>>

LoginFind(r) ==
  /\ req[r].kind = "login"
  /\ req[r].pc = "find"
  /\ UNCHANGED <<client, todo>>
  /\ LET q == Queried(req[r])
         result == FindUserByEmail(q.user.email) IN
       \/ Respond(r, Fail(req[r], PgFault))
       \/ IF Cardinality(result) = 0
          THEN Respond(r, Fail(q, LoginUnknownError))
          ELSE Await(r, [q EXCEPT !.pc = "compare", !.row = CHOOSE a \in result : TRUE])
  /\ UNCHANGED <<accounts, accountSeq, tasks, taskSeq, now, held, registered, served, nreq>>

(* a handler that drops the account after a failed attempt *)
LoginComparePurging(r) ==
  /\ req[r].kind = "login"
  /\ req[r].pc = "compare"
  /\ UNCHANGED <<client, todo>>
  /\ LET q == req[r]
         foundUser == q.row
         match == LoginMatch(q.user.password, foundUser)
         token == Sign(LoginClaims(foundUser), JWT_SECRET, now) IN
       IF ~match
       THEN /\ Respond(r, Fail(q, LoginMismatchError))
            /\ accounts' = accounts \ {foundUser}
       ELSE /\ Respond(r, Reply(q, 200, [id |-> foundUser.id, email |-> foundUser.email, token |-> token]))
            /\ UNCHANGED accounts
  /\ UNCHANGED <<accountSeq, tasks, taskSeq, now, held, registered, served, nreq>>

LoginCompare(r) ==
  /\ req[r].kind = "login"
  /\ req[r].pc = "compare"
  /\ UNCHANGED <<client, todo>>
  /\ LET q == req[r]
         foundUser == q.row
         match == LoginMatch(q.user.password, foundUser)
         token == Sign(LoginClaims(foundUser), JWT_SECRET, now) IN
       IF ~match
       THEN Respond(r, Fail(q, LoginMismatchError))
       ELSE Respond(r, Reply(q, 200, [id |-> foundUser.id, email |-> foundUser.email, token |-> token]))
  /\ UNCHANGED <<accounts, accountSeq, tasks, taskSeq, now, held, registered, served, nreq>>

----------------------------------------------------------------------------
(* POST /user/logout: router.post("/logout", auth, logout) *)

(* auth, then logout *)
PostUserLogout(r, h) ==
  LET q == Receive("logout", NoUser, NoTask, h) IN
  IF ~Auth(h, now)
  THEN /\ Respond(r, Reply(q, 401, AuthRejectBody))
       /\ UNCHANGED served
  ELSE /\ Respond(r, Reply(q, 200, [message |-> "Logged out successfully"]))
       /\ served' = served \cup {Served("logout", h, 0)}

Logout(r) ==
  /\ req[r].kind = "idle"
  /\ nreq < MaxRequests
  /\ UNCHANGED <<client, todo>>
  /\ \E h \in Headers : PostUserLogout(r, h)
  /\ nreq' = nreq + 1
  /\ UNCHANGED <<accounts, accountSeq, tasks, taskSeq, now, held, registered>>

----------------------------------------------------------------------------
(* POST /create *)

JsonString(s) == [string |-> s]

(* !task || !task.description *)
MissingDescription(t) == ~t.present \/ t.description = ""

(* the handler of POST /create, up to its query *)
PostCreate(r, t, h) ==
  LET q == Receive("create", NoUser, t, h) IN
  IF MissingDescription(t)
  THEN Respond(r, Reply(q, 400, [error |-> JsonString("Task description is required")]))
  ELSE Await(r, [q EXCEPT !.pc = "insert"])

StartCreate(r) ==
  /\ req[r].kind = "idle"
  /\ nreq < MaxRequests
  /\ UNCHANGED <<client, todo>>
  /\ \E t \in TaskBodies, h \in Headers : PostCreate(r, t, h)
  /\ nreq' = nreq + 1
  /\ UNCHANGED <<accounts, accountSeq, tasks, taskSeq, now, held, registered, served>>

(* a handler whose statement leaves the new row alone in the table *)
CreateInsertOverwrite(r) ==
  /\ req[r].kind = "create"
  /\ req[r].pc = "insert"
  /\ UNCHANGED <<client, todo>>
  /\ LET q == req[r]
         row == [id |-> taskSeq + 1, description |-> q.task.description] IN
       /\ tasks' = {row}
       /\ taskSeq' = taskSeq + 1
       /\ Respond(r, Reply(q, 201, row))
       /\ served' = IF Fresh(q.auth, q.at)
                     THEN served \cup {[kind |-> "create", auth |-> q.auth, id |-> row.id]}
                     ELSE served
  /\ UNCHANGED <<accounts, accountSeq, now, held, registered, nreq>>

(* INSERT INTO task (description) VALUES ($1) RETURNING * *)
CreateInsert(r) ==
  /\ req[r].kind = "create"
  /\ req[r].pc = "insert"
  /\ UNCHANGED <<client, todo>>
  /\ LET q == req[r]
         row == [id |-> taskSeq + 1, description |-> q.task.description] IN
       \/ /\ Respond(r, Fail(q, PgFault))
          /\ UNCHANGED <<tasks, taskSeq, served>>
       \/ /\ tasks' = tasks \cup {row}
          /\ taskSeq' = taskSeq + 1
          /\ Respond(r, Reply(q, 201, row))
          /\ served' = IF Fresh(q.auth, q.at)
                        THEN served \cup {Served("create", q.auth, row.id)}
                        ELSE served
  /\ UNCHANGED <<accounts, accountSeq, now, held, registered, nreq>>

----------------------------------------------------------------------------
(* GET / *)

(* the handler of GET /, up to its query *)
GetTasks(r) == Await(r, [Receive("list", NoUser, NoTask, Absent) EXCEPT !.pc = "select"])

StartList(r) ==
  /\ req[r].kind = "idle"
  /\ nreq < MaxRequests
  /\ UNCHANGED <<client, todo>>
  /\ GetTasks(r)
  /\ nreq' = nreq + 1
  /\ UNCHANGED <<accounts, accountSeq, tasks, taskSeq, now, held, registered, served>>

(* SELECT * FROM task; the answer is result.rows || [] *)
ListSelect(r) ==
  /\ req[r].kind = "list"
  /\ req[r].pc = "select"
  /\ UNCHANGED <<client, todo>>
  /\ LET q == req[r] IN
       \/ Respond(r, Fail(q, PgFault))
       \/ Respond(r, Reply(q, 200, [rows |-> tasks]))
  /\ UNCHANGED <<accounts, accountSeq, tasks, taskSeq, now, held, registered, served, nreq>>

----------------------------------------------------------------------------
(* DELETE /delete/:id *)

(* res.json(undefined): a response without a body *)
Undefined == NoBody

(* history: a task of that id was in the table when the request's query ran *)
Deleting(q) == [q EXCEPT !.taken = \E t \in tasks : t.id = q.id]

(* the handler of DELETE /delete/:id, up to its query *)
DeleteTask(r, id, h) ==
  Await(r, [Receive("delete", NoUser, NoTask, h) EXCEPT !.id = id, !.pc = "delete"])

StartDelete(r) ==
  /\ req[r].kind = "idle"
  /\ nreq < MaxRequests
  /\ UNCHANGED <<client, todo>>
  /\ \E id \in TaskIds, h \in {Absent, held} : DeleteTask(r, id, h)
  /\ nreq' = nreq + 1
  /\ UNCHANGED <<accounts, accountSeq, tasks, taskSeq, now, held, registered, served>>

(* a handler whose DELETE has lost its WHERE *)
DeleteReturningAll(r) ==
  /\ req[r].kind = "delete"
  /\ req[r].pc = "delete"
  /\ UNCHANGED <<client, todo>>
  /\ LET q == Deleting(req[r])
         rows == {t \in tasks : t.id = q.id} IN
       /\ tasks' = {}
       /\ Respond(r, Reply(q, 200, IF rows = {} THEN NoBody ELSE [id |-> q.id]))
  /\ UNCHANGED <<accounts, accountSeq, taskSeq, now, held, registered, served, nreq>>

(* a handler whose DELETE also reaches the account of the same id *)
DeleteReturningCascade(r) ==
  /\ req[r].kind = "delete"
  /\ req[r].pc = "delete"
  /\ UNCHANGED <<client, todo>>
  /\ LET q == Deleting(req[r])
         rows == {t \in tasks : t.id = q.id} IN
       /\ tasks' = tasks \ rows
       /\ accounts' = {a \in accounts : a.id # q.id}
       /\ Respond(r, Reply(q, 200, IF rows = {} THEN NoBody ELSE [id |-> q.id]))
  /\ UNCHANGED <<accountSeq, taskSeq, now, held, registered, served, nreq>>

(* DELETE FROM task WHERE id = $1 RETURNING id; the answer is result.rows[0] *)
DeleteReturning(r) ==
  /\ req[r].kind = "delete"
  /\ req[r].pc = "delete"
  /\ UNCHANGED <<client, todo>>
  /\ LET q == Deleting(req[r])
         rows == {t \in tasks : t.id = q.id} IN
       \/ /\ Respond(r, Fail(req[r], PgFault))
          /\ UNCHANGED tasks
       \/ /\ tasks' = tasks \ rows
          /\ Respond(r, Reply(q, 200, IF rows = {} THEN Undefined ELSE [id |-> q.id]))
  /\ UNCHANGED <<accounts, accountSeq, taskSeq, now, held, registered, served, nreq>>

----------------------------------------------------------------------------
(* The browser: the React client *)

(* null: an absent localStorage key, the context's user before a sign-in *)
Null == [form |-> "null"]

(* useState(null) of an error message *)
NoMessage == ""

(* a slot without a fetch of the browser; otherwise the handler that awaits
   the fetch (op) with what its closure captured: the tasks of the render it
   was called from, and the id handed to handleDeleteTask *)
NoPending == [op |-> "none", tasks |-> <<>>, id |-> 0]

(* history: what the browser did last. A handler that ran to its end is
   recorded by its name with the status of the response it was given (0: the
   fetch was rejected), a page load as "load" with the location that was asked
   for, and a handler that has just sent its request as "send" *)
NoRun == [op |-> "none", status |-> 0, path |-> ""]
Ran(op, status) == [NoRun EXCEPT !.op = op, !.status = status]
Loaded(path) == [NoRun EXCEPT !.op = "load", !.path = path]

AuthRoutes == {"/signin", "/signup"}
Routes == AuthRoutes \cup {"/"}
AppOps == {"fetch", "add", "delete"}

(* what is typed into the forms *)
FormBodies == {[present |-> TRUE, email |-> "a@x", password |-> p] : p \in Passwords}
Descriptions == {"x"}

(* The page as createRoot(...).render(...) leaves it at a location: strict is
   whether the build runs StrictMode's second effect pass (development) or
   not (production); token and userEmail are the localStorage keys; user is
   the context's state; authError and authLoading are the state of
   Authentication, timer its pending setTimeout; tasks, error and loading are
   the state of App, effects the calls of fetchTasks its mount still owes;
   reloaded is history: the provider was mounted over a stored token and no
   sign-in or logout ran since; failed is history: some request of the App
   screen was answered with an error, was rejected, or was left behind by the
   screen before its answer came. *)
Page(strict, route, token, userEmail) ==
  [strict |-> strict, route |-> route, token |-> token, userEmail |-> userEmail,
   user |-> Null, reloaded |-> FALSE, authError |-> NoMessage, authLoading |-> FALSE,
   timer |-> FALSE, effects |-> 0, tasks |-> <<>>, error |-> NoMessage, loading |-> FALSE,
   pending |-> [r \in Slots |-> NoPending], ran |-> NoRun, failed |-> FALSE]

(* useEffect(() => { fetchTasks() }, []): once, twice under StrictMode *)
MountEffects(strict) == IF strict THEN 2 ELSE 1

(* <App /> is mounted: useState([]), useState(null), useState(false) *)
MountApp(c) ==
  [c EXCEPT !.tasks = <<>>, !.error = NoMessage, !.loading = FALSE,
            !.effects = MountEffects(c.strict)]

(* <App /> is unmounted: its state is gone and the handlers still awaiting a
   fetch set the state of a component that is no longer there; handleLogout
   goes on, it only calls the context and the router *)
UnmountApp(c) ==
  [c EXCEPT !.tasks = <<>>, !.error = NoMessage, !.loading = FALSE, !.effects = 0,
            !.failed = c.failed \/ \E r \in Slots : c.pending[r].op \in AppOps,
            !.pending = [r \in Slots |-> IF c.pending[r].op \in AppOps
                                          THEN NoPending ELSE c.pending[r]]]

(* navigate(to) *)
Navigate(c, to) ==
  IF c.route = to THEN c
  ELSE IF to = "/" THEN [MountApp(c) EXCEPT !.route = to, !.authError = NoMessage,
                                            !.authLoading = FALSE]
  ELSE IF c.route = "/" THEN [UnmountApp(c) EXCEPT !.route = to]
  ELSE [c EXCEPT !.route = to]

(* a guard that lets everyone through *)
ProtectedRouteOpen(token, user) == "/"

(* ProtectedRoute: <Navigate to="/signin" replace /> or <Outlet /> *)
ProtectedRoute(token, user) == IF token = Null /\ user = Null THEN "/signin" ELSE "/"

(* JSON.parse(atob(token.split('.')[1])): the claims of a token, an exception
   (Null) on anything else *)
Payload(token) == IF token.form = "jwt" THEN token.claims ELSE Null

(* payload.id; undefined is written 0 *)
PayloadId(payload) == IF "id" \in DOMAIN payload THEN payload.id ELSE 0

(* UserProvider's effect on mount, over the localStorage it finds *)
UserProviderMount(c) ==
  IF c.token # Null /\ c.userEmail # Null
  THEN IF Payload(c.token) # Null
       THEN [c EXCEPT !.user = [id |-> PayloadId(Payload(c.token)), email |-> c.userEmail,
                                token |-> c.token]]
       ELSE [c EXCEPT !.token = Null, !.userEmail = Null]
  ELSE c

(* logout() of the context *)
ContextLogout(c) == [c EXCEPT !.token = Null, !.userEmail = Null, !.user = Null]

(* the Authorization header fetch sends for localStorage.getItem("token"):
   a missing key goes out as the string "null" *)
Authorization(token) == IF token = Null THEN Malformed ELSE token

(* a slot the browser can send a request on *)
Free(r) == req[r].kind = "idle" /\ client.pending[r].op = "none" /\ sent[r] = NoResponse

(* the responses still awaited once the page is c *)
Awaited(c) == [r \in Slots |-> IF c.pending[r].op = "none" THEN NoResponse ELSE sent[r]]

(* the fetch on slot r is settled *)
Settle(c, r, op, status) == [c EXCEPT !.pending[r] = NoPending, !.ran = Ran(op, status)]

(* response.ok *)
Ok(response) == response.status \in 200..299

(* data.error?.message || fallback *)
ErrorMessage(data, fallback) ==
  IF "error" \in DOMAIN data /\ "message" \in DOMAIN data.error
  THEN data.error.message
  ELSE fallback

(* the rows of a response of GET /, in the order the server sent them: the
   query has no ORDER BY *)
Orderings(rows) ==
  {s \in [1..Cardinality(rows) -> rows] : \A i, j \in DOMAIN s : i # j => s[i] # s[j]}

(* tasks.filter((task) => task.id !== id) *)
RECURSIVE FilterId(_, _)
FilterId(list, id) ==
  IF list = <<>> THEN <<>>
  ELSE IF Head(list).id # id THEN <<Head(list)>> \o FilterId(Tail(list), id)
  ELSE FilterId(Tail(list), id)

(* the frame of a step of the browser that sends nothing *)
ServerUnchanged ==
  UNCHANGED <<accounts, accountSeq, tasks, taskSeq, now, req, last, held, registered, served,
              nreq, todo>>

(* the page is loaded at a location: a new document, so every handler, timer
   and fetch of the old one is gone; localStorage stays *)
Load ==
  \E path \in Routes :
    LET c0 == Page(client.strict, path, client.token, client.userEmail)
        route == IF path = "/" THEN ProtectedRoute(c0.token, c0.user) ELSE path
        c1 == [UserProviderMount(c0)
                 EXCEPT !.route = route, !.reloaded = (c0.token # Null), !.ran = Loaded(path),
                        !.failed = client.failed
                                     \/ \E r \in Slots : client.pending[r].op \in AppOps] IN
      /\ client' = IF route = "/" THEN MountApp(c1) ELSE c1
      /\ sent' = [r \in Slots |-> NoResponse]
      /\ ServerUnchanged

(* toggleMode *)
ToggleMode ==
  /\ client.route \in AuthRoutes
  /\ ~client.authLoading
  /\ client' = [Navigate(client, IF client.route = "/signin" THEN "/signup" ELSE "/signin")
                  EXCEPT !.ran = Ran("toggle", 0)]
  /\ UNCHANGED sent
  /\ ServerUnchanged

(* the timeout set after a successful sign-up fires: navigate('/signin') *)
TimerFires ==
  /\ client.timer
  /\ client' = [Navigate(client, "/signin") EXCEPT !.timer = FALSE, !.ran = Ran("timer", 0)]
  /\ sent' = Awaited(client')
  /\ ServerUnchanged

(* handleSubmit of Authentication, up to its fetch *)
Submit(r) ==
  /\ client.route \in AuthRoutes
  /\ ~client.authLoading
  /\ Free(r)
  /\ nreq < MaxRequests
  /\ \E u \in FormBodies :
       IF client.route = "/signin"
       THEN /\ client' = [client EXCEPT !.authError = NoMessage, !.authLoading = TRUE,
                                        !.ran = Ran("send", 0),
                                        !.pending[r] = [NoPending EXCEPT !.op = "signin"]]
            /\ PostUserSignin(r, u)
       ELSE /\ client' = [client EXCEPT !.authError = NoMessage, !.authLoading = TRUE,
                                        !.ran = Ran("send", 0),
                                        !.pending[r] = [NoPending EXCEPT !.op = "signup"]]
            /\ PostUserSignup(r, u)
  /\ nreq' = nreq + 1
  /\ UNCHANGED <<accounts, accountSeq, tasks, taskSeq, now, held, registered, served, todo>>

(* a handleSubmit without its finally: loading is reset on success only *)
SubmitDoneNoFinally(r) ==
  /\ client.pending[r].op \in {"signin", "signup"}
  /\ sent[r] # NoResponse
  /\ client.effects = 0
  /\ LET op == client.pending[r].op
         data == sent[r].body
         c0 == Settle(client, r, op, sent[r].status) IN
       client' =
         IF ~Ok(sent[r])
         THEN [c0 EXCEPT !.authError = ErrorMessage(data, "Authentication failed")]
         ELSE IF op = "signup"
         THEN [c0 EXCEPT !.authError = "Account created successfully! Please sign in.",
                         !.timer = TRUE, !.authLoading = FALSE]
         ELSE Navigate([c0 EXCEPT !.token = data.token,
                                  !.user = [id |-> data.id, email |-> data.email,
                                            token |-> data.token],
                                  !.reloaded = FALSE], "/")
  /\ sent' = Awaited(client')
  /\ ServerUnchanged

(* handleSubmit of Authentication, from the response on *)
SubmitDone(r) ==
  /\ client.pending[r].op \in {"signin", "signup"}
  /\ sent[r] # NoResponse
  /\ client.effects = 0
  /\ LET op == client.pending[r].op
         data == sent[r].body
         c0 == [Settle(client, r, op, sent[r].status) EXCEPT !.authLoading = FALSE] IN
       client' =
         IF ~Ok(sent[r])
         THEN [c0 EXCEPT !.authError = ErrorMessage(data, "Authentication failed")]
         ELSE IF op = "signup"
         THEN [c0 EXCEPT !.authError = "Account created successfully! Please sign in.",
                         !.timer = TRUE]
         ELSE Navigate([c0 EXCEPT !.token = data.token,
                                  !.user = [id |-> data.id, email |-> data.email,
                                            token |-> data.token],
                                  !.reloaded = FALSE], "/")
  /\ sent' = Awaited(client')
  /\ ServerUnchanged

(* fetchTasks, called by the mount effect, up to its fetch *)
FetchTasks(r) ==
  /\ client.route = "/"
  /\ client.effects > 0
  /\ Free(r)
  /\ nreq < MaxRequests
  /\ client' = [client EXCEPT !.effects = @ - 1, !.loading = TRUE, !.error = NoMessage,
                              !.ran = Ran("send", 0),
                              !.pending[r] = [NoPending EXCEPT !.op = "fetch"]]
  /\ GetTasks(r)
  /\ nreq' = nreq + 1
  /\ UNCHANGED <<accounts, accountSeq, tasks, taskSeq, now, held, registered, served, todo>>

(* fetchTasks, from the response on *)
FetchTasksDone(r) ==
  /\ client.pending[r].op = "fetch"
  /\ sent[r] # NoResponse
  /\ client.effects = 0
  /\ LET c0 == [Settle(client, r, "fetch", sent[r].status) EXCEPT !.loading = FALSE] IN
       IF ~Ok(sent[r])
       THEN client' = [c0 EXCEPT !.error = "Failed to fetch tasks", !.failed = TRUE]
       ELSE \E data \in Orderings(sent[r].body.rows) : client' = [c0 EXCEPT !.tasks = data]
  /\ sent' = Awaited(client')
  /\ ServerUnchanged

(* handleAddTask, called by TaskForm, up to its fetch *)
HandleAddTask(r) ==
  /\ client.route = "/"
  /\ client.effects = 0
  /\ ~client.loading
  /\ Free(r)
  /\ nreq < MaxRequests
  /\ \E description \in Descriptions :
       /\ client' = [client EXCEPT !.loading = TRUE, !.error = NoMessage,
                                   !.ran = Ran("send", 0),
                                   !.pending[r] = [NoPending EXCEPT !.op = "add",
                                                                    !.tasks = client.tasks]]
       /\ PostCreate(r, [present |-> TRUE, description |-> description],
                     Authorization(client.token))
  /\ nreq' = nreq + 1
  /\ UNCHANGED <<accounts, accountSeq, tasks, taskSeq, now, held, registered, served, todo>>

(* handleAddTask, from the response on *)
HandleAddTaskDone(r) ==
  /\ client.pending[r].op = "add"
  /\ sent[r] # NoResponse
  /\ client.effects = 0
  /\ LET data == sent[r].body
         c0 == [Settle(client, r, "add", sent[r].status) EXCEPT !.loading = FALSE] IN
       client' = IF ~Ok(sent[r])
                 THEN [c0 EXCEPT !.error = ErrorMessage(data, "Failed to create task"),
                                 !.failed = TRUE]
                 ELSE [c0 EXCEPT !.tasks = Append(client.pending[r].tasks, data)]
  /\ sent' = Awaited(client')
  /\ ServerUnchanged

(* handleDeleteTask, called by a task's Delete button, up to its fetch *)
HandleDeleteTask(r) ==
  /\ client.route = "/"
  /\ client.effects = 0
  /\ ~client.loading
  /\ Free(r)
  /\ nreq < MaxRequests
  /\ \E i \in DOMAIN client.tasks :
       /\ client' = [client EXCEPT !.loading = TRUE, !.error = NoMessage,
                                   !.ran = Ran("send", 0),
                                   !.pending[r] = [op |-> "delete", tasks |-> client.tasks,
                                                   id |-> client.tasks[i].id]]
       /\ DeleteTask(r, client.tasks[i].id, Absent)
  /\ nreq' = nreq + 1
  /\ UNCHANGED <<accounts, accountSeq, tasks, taskSeq, now, held, registered, served, todo>>

(* handleDeleteTask, from the response on; response.json() throws on a
   response without a body *)
HandleDeleteTaskDone(r) ==
  /\ client.pending[r].op = "delete"
  /\ sent[r] # NoResponse
  /\ client.effects = 0
  /\ LET data == sent[r].body
         c0 == [Settle(client, r, "delete", sent[r].status) EXCEPT !.loading = FALSE] IN
       client' = IF data = Undefined
                 THEN [c0 EXCEPT !.error = "Unexpected end of JSON input"]
                 ELSE IF ~Ok(sent[r])
                 THEN [c0 EXCEPT !.error = ErrorMessage(data, "Failed to delete task"),
                                 !.failed = TRUE]
                 ELSE [c0 EXCEPT !.tasks = FilterId(client.pending[r].tasks,
                                                    client.pending[r].id)]
  /\ sent' = Awaited(client')
  /\ ServerUnchanged

(* handleLogout, up to its fetch *)
HandleLogout(r) ==
  /\ client.route = "/"
  /\ client.effects = 0
  /\ Free(r)
  /\ nreq < MaxRequests
  /\ client' = [client EXCEPT !.pending[r] = [NoPending EXCEPT !.op = "logout"],
                              !.ran = Ran("send", 0)]
  /\ PostUserLogout(r, Authorization(client.token))
  /\ nreq' = nreq + 1
  /\ UNCHANGED <<accounts, accountSeq, tasks, taskSeq, now, held, registered, todo>>

(* a handleLogout that ends the session only if the server agreed *)
LogoutOnSuccess(c) ==
  IF c.ran.status = 200
  THEN [Navigate([c EXCEPT !.token = Null, !.userEmail = Null, !.user = Null], "/signin")
          EXCEPT !.reloaded = FALSE]
  ELSE c

(* finally { logout(); navigate("/signin") } *)
LogoutFinally(c) == [Navigate(ContextLogout(c), "/signin") EXCEPT !.reloaded = FALSE]

(* handleLogout, from the response on *)
HandleLogoutDone(r) ==
  /\ client.pending[r].op = "logout"
  /\ sent[r] # NoResponse
  /\ client.effects = 0
  /\ client' = LogoutFinally(Settle(client, r, "logout", sent[r].status))
  /\ sent' = Awaited(client')
  /\ ServerUnchanged

(* a fetch is rejected, the connection failed: the handler goes through its
   catch; whatever the server does with the request is no longer heard of *)
NetworkError(r) ==
  /\ client.pending[r].op # "none"
  /\ client.effects = 0
  /\ LET op == client.pending[r].op
         c0 == Settle(client, r, op, 0) IN
       client' =
         IF op \in {"signin", "signup"}
         THEN [c0 EXCEPT !.authError = "Failed to fetch", !.authLoading = FALSE]
         ELSE IF op \in AppOps
         THEN [c0 EXCEPT !.error = "Failed to fetch", !.loading = FALSE, !.failed = TRUE]
         ELSE LogoutFinally(c0)
  /\ sent' = Awaited(client')
  /\ ServerUnchanged

----------------------------------------------------------------------------
(* The todo list that keeps its tasks in component state *)

(* Bounds: the characters typed, the length of the input, the length of the list *)
Chars == {" ", "a"}
MaxInput == 2
MaxTasks == 3

(* a string is the sequence of its characters *)
Inputs == UNION {[1..n -> Chars] : n \in 0..MaxInput}
EmptyString == <<>>

(* String.prototype.trim: the string without its leading and trailing white space *)
WhiteSpace(ch) == ch = " "

RECURSIVE TrimStart(_)
TrimStart(s) == IF s # <<>> /\ WhiteSpace(Head(s)) THEN TrimStart(Tail(s)) ELSE s

RECURSIVE TrimEnd(_)
TrimEnd(s) ==
  IF s # <<>> /\ WhiteSpace(s[Len(s)]) THEN TrimEnd(SubSeq(s, 1, Len(s) - 1)) ELSE s

trim(s) == TrimEnd(TrimStart(s))

(* a filter that stops at the first match *)
RECURSIVE FilterFirst(_, _)
FilterFirst(list, taskToDelete) ==
  IF list = <<>> THEN <<>>
  ELSE IF Head(list) # taskToDelete
  THEN <<Head(list)>> \o FilterFirst(Tail(list), taskToDelete)
  ELSE Tail(list)

(* tasks.filter(item => item !== taskToDelete) *)
RECURSIVE FilterItem(_, _)
FilterItem(list, taskToDelete) ==
  IF list = <<>> THEN <<>>
  ELSE IF Head(list) # taskToDelete
  THEN <<Head(list)>> \o FilterItem(Tail(list), taskToDelete)
  ELSE FilterItem(Tail(list), taskToDelete)

(* useState("") and useState([]); did is history: the function called last,
   with the argument of a deleteTask *)
Called(op, arg) == [op |-> op, arg |-> arg]
NoTodo == [task |-> EmptyString, tasks |-> <<>>, did |-> Called("none", EmptyString)]

TodoUnchanged ==
  UNCHANGED <<accounts, accountSeq, tasks, taskSeq, now, req, last, held, registered, served,
              nreq, client, sent>>

(* onChange: setTask(e.target.value) *)
setTask ==
  /\ \E value \in Inputs :
       todo' = [todo EXCEPT !.task = value, !.did = Called("setTask", EmptyString)]
  /\ TodoUnchanged

(* addTask, on Enter *)
addTask ==
  /\ Len(todo.tasks) < MaxTasks
  /\ todo' = IF trim(todo.task) # EmptyString
             THEN [todo EXCEPT !.tasks = Append(todo.tasks, todo.task), !.task = EmptyString,
                               !.did = Called("addTask", EmptyString)]
             ELSE [todo EXCEPT !.did = Called("addTask", EmptyString)]
  /\ TodoUnchanged

(* deleteTask(item), on the Delete button of an entry *)
deleteTask ==
  /\ \E index \in DOMAIN todo.tasks :
       LET item == todo.tasks[index] IN
         todo' = [todo EXCEPT !.tasks = FilterItem(todo.tasks, item),
                              !.did = Called("deleteTask", item)]
  /\ TodoUnchanged

----------------------------------------------------------------------------
(* The client keeps the token of the response it was just given *)

Keep ==
  /\ "token" \in DOMAIN last.body
  /\ held # last.body.token
  /\ held' = last.body.token
  /\ UNCHANGED <<accounts, accountSeq, tasks, taskSeq, now, req, last, registered, served, nreq,
                 client, sent, todo>>

Tick ==
  /\ now < MaxTime
  /\ now' = now + 1
  /\ UNCHANGED <<accounts, accountSeq, tasks, taskSeq, req, last, held, registered, served, nreq,
                 client, sent, todo>>

----------------------------------------------------------------------------

Init ==
  /\ accounts = {}
  /\ accountSeq = 0
  /\ tasks = {}
  /\ taskSeq = 0
  /\ now = 0
  /\ req = [r \in Slots |-> IdleReq]
  /\ last = IdleReq
  /\ held = Absent
  /\ registered = [e \in Emails |-> ""]
  /\ served = {}
  /\ nreq = 0
  /\ client = Page(FALSE, "/signin", Null, Null)
  /\ sent = [r \in Slots |-> NoResponse]
  /\ todo = NoTodo

Next ==
  \/ \E r \in Slots : StartSignup(r)
  \/ \E r \in Slots : SignupFind(r)
  \/ \E r \in Slots : SignupHash(r)
  \/ \E r \in Slots : SignupInsert(r)
  \/ \E r \in Slots : StartSignin(r)
  \/ \E r \in Slots : SigninFind(r)
  \/ \E r \in Slots : SigninCompare(r)
  \/ \E r \in Slots : StartLogin(r)
  \/ \E r \in Slots : LoginFind(r)
  \/ \E r \in Slots : LoginCompare(r)
  \/ \E r \in Slots : Logout(r)
  \/ \E r \in Slots : StartCreate(r)
  \/ \E r \in Slots : CreateInsert(r)
  \/ \E r \in Slots : StartList(r)
  \/ \E r \in Slots : ListSelect(r)
  \/ \E r \in Slots : StartDelete(r)
  \/ \E r \in Slots : DeleteReturning(r)
  \/ Keep
  \/ Tick

Spec == Init /\ [][Next]_vars

(* The account routes alone: signup, signin and login in any interleaving *)
NextAccounts ==
  \/ \E r \in Slots : StartSignup(r)
  \/ \E r \in Slots : SignupFind(r)
  \/ \E r \in Slots : SignupHash(r)
  \/ \E r \in Slots : SignupInsert(r)
  \/ \E r \in Slots : StartSignin(r)
  \/ \E r \in Slots : SigninFind(r)
  \/ \E r \in Slots : SigninCompare(r)
  \/ \E r \in Slots : StartLogin(r)
  \/ \E r \in Slots : LoginFind(r)
  \/ \E r \in Slots : LoginCompare(r)

SpecAccounts == Init /\ [][NextAccounts]_vars

(* The task routes and logout, for a client that has signed up as a@x, has been
   given a token by login or by signin at time 0 and has kept it *)
InitTasks ==
  \E kind \in {"login", "signin"} :
    LET u == [present |-> TRUE, email |-> "a@x", password |-> "p"]
        row == [id |-> 1, email |-> u.email,
                password |-> Hash(u.password, CHOOSE salt \in Salts : TRUE)]
        claims == IF kind = "login" THEN LoginClaims(row) ELSE SigninClaims(row)
        token == Sign(claims, JWT_SECRET, 0)
        q == [IdleReq EXCEPT !.kind = kind, !.user = u, !.row = row, !.ack = u.password,
                             !.taken = TRUE] IN
      /\ accounts = {row}
      /\ accountSeq = 1
      /\ tasks = {}
      /\ taskSeq = 0
      /\ now = 0
      /\ req = [r \in Slots |-> IdleReq]
      /\ last = Reply(q, 200, [id |-> row.id, email |-> row.email, token |-> token])
      /\ held = token
      /\ registered = [e \in Emails |-> IF e = u.email THEN u.password ELSE ""]
      /\ served = {}
      /\ nreq = 0
      /\ client = Page(FALSE, "/signin", Null, Null)
      /\ sent = [r \in Slots |-> NoResponse]
      /\ todo = NoTodo

NextTasks ==
  \/ \E r \in Slots : Logout(r)
  \/ \E r \in Slots : StartCreate(r)
  \/ \E r \in Slots : CreateInsert(r)
  \/ \E r \in Slots : StartList(r)
  \/ \E r \in Slots : ListSelect(r)
  \/ \E r \in Slots : StartDelete(r)
  \/ \E r \in Slots : DeleteReturning(r)
  \/ Tick

SpecTasks == InitTasks /\ [][NextTasks]_vars

(* The browser against the server. Either nothing has happened yet and the
   page is opened at /signin, or a@x has signed up and has just signed in
   through the Authentication screen at time 0, the task table being empty or
   holding one task of an earlier session: the page is at "/" and App's mount
   effect is about to run. *)
InitClient ==
  \E strict \in BOOLEAN :
    \/ /\ Init!1 /\ Init!2 /\ Init!3 /\ Init!4 /\ Init!5 /\ Init!6 /\ Init!7 /\ Init!8
       /\ Init!9 /\ Init!10 /\ Init!11
       /\ client = Page(strict, "/signin", Null, Null)
       /\ sent = [r \in Slots |-> NoResponse]
       /\ todo = NoTodo
    \/ \E stored \in {{}, {[id |-> 1, description |-> "x"]}} :
         LET u == [present |-> TRUE, email |-> "a@x", password |-> "p"]
             row == [id |-> 1, email |-> u.email,
                     password |-> Hash(u.password, CHOOSE salt \in Salts : TRUE)]
             token == Sign(SigninClaims(row), JWT_SECRET, 0)
             q == [IdleReq EXCEPT !.kind = "signin", !.user = u, !.row = row,
                                  !.ack = u.password, !.taken = TRUE]
             data == [id |-> row.id, email |-> row.email, token |-> token] IN
           /\ accounts = {row}
           /\ accountSeq = 1
           /\ tasks = stored
           /\ taskSeq = Cardinality(stored)
           /\ now = 0
           /\ req = [r \in Slots |-> IdleReq]
           /\ last = Reply(q, 200, data)
           /\ held = token
           /\ registered = [e \in Emails |-> IF e = u.email THEN u.password ELSE ""]
           /\ served = {}
           /\ nreq = 0
           /\ client = [MountApp(Page(strict, "/", token, Null))
                          EXCEPT !.user = data, !.ran = Ran("signin", 200)]
           /\ sent = [r \in Slots |-> NoResponse]
           /\ todo = NoTodo

NextClient ==
  \/ Load
  \/ ToggleMode
  \/ TimerFires
  \/ \E r \in Slots : Submit(r)
  \/ \E r \in Slots : SubmitDone(r)
  \/ \E r \in Slots : FetchTasks(r)
  \/ \E r \in Slots : FetchTasksDone(r)
  \/ \E r \in Slots : HandleAddTask(r)
  \/ \E r \in Slots : HandleAddTaskDone(r)
  \/ \E r \in Slots : HandleDeleteTask(r)
  \/ \E r \in Slots : HandleDeleteTaskDone(r)
  \/ \E r \in Slots : HandleLogout(r)
  \/ \E r \in Slots : HandleLogoutDone(r)
  \/ \E r \in Slots : NetworkError(r)
  \/ \E r \in Slots : SignupFind(r)
  \/ \E r \in Slots : SignupHash(r)
  \/ \E r \in Slots : SignupInsert(r)
  \/ \E r \in Slots : SigninFind(r)
  \/ \E r \in Slots : SigninCompare(r)
  \/ \E r \in Slots : CreateInsert(r)
  \/ \E r \in Slots : ListSelect(r)
  \/ \E r \in Slots : DeleteReturning(r)
  \/ Tick

SpecClient == InitClient /\ [][NextClient]_vars

(* The todo list in component state: typing, Enter and the Delete buttons *)
NextTodo ==
  \/ setTask
  \/ addTask
  \/ deleteTask

SpecTodo == Init /\ [][NextTodo]_vars

----------------------------------------------------------------------------
(* Properties of registration and authentication *)

Answered(kinds) == last.kind \in kinds
NoFault == last.err # PgFault
ValidCredentials == ~MissingCredentials(last.user)
AccountOf(email) == {a \in accounts : a.email = email}

(* C1: a signup with email and password both non-empty, whose email is not in
   the account table when the store serves it, is answered 201 {id, email} of
   the account it created; and every login or signin received after that 201
   with the same email and password is answered 200 with the account's id and
   email and a token, whatever requests were served in between (store faults
   apart). *)
C1_RegisterThenAuthenticate ==
  /\ (Answered({"signup"}) /\ ValidCredentials /\ NoFault /\ ~last.taken)
       => /\ last.status = 201
          /\ \E a \in AccountOf(last.user.email) :
               /\ last.body = [id |-> a.id, email |-> last.user.email]
               /\ Compare(last.user.password, a.password)
  /\ (Answered({"login", "signin"}) /\ ValidCredentials /\ NoFault
        /\ last.ack = last.user.password)
       => /\ last.status = 200
          /\ DOMAIN last.body = {"id", "email", "token"}
          /\ last.body.email = last.user.email
          /\ \E a \in AccountOf(last.user.email) : last.body.id = a.id
          /\ last.body.token.form = "jwt"

C1_Witness ==
  /\ Answered({"signin"})
  /\ last.status = 200
  /\ last.ack = last.user.password
  /\ nreq >= 3

(* C2: a login or signin response carries a token only if an account with the
   supplied email exists and the supplied password verifies against its stored
   digest; a wrong password for a registered email is answered 401 without a
   token. *)
C2_TokenOnlyOnProvenIdentity ==
  Answered({"login", "signin"}) =>
    /\ ("token" \in DOMAIN last.body)
         => \E a \in AccountOf(last.user.email) : Compare(last.user.password, a.password)
    /\ (ValidCredentials /\ NoFault /\ last.taken
          /\ \A a \in AccountOf(last.user.email) : ~Compare(last.user.password, a.password))
         => (last.status = 401 /\ "token" \notin DOMAIN last.body)

C2_Witness ==
  /\ Answered({"login", "signin"})
  /\ last.taken
  /\ last.ack # ""
  /\ last.ack # last.user.password
  /\ last.status = 401

(* the answer to a signup of an email whose signup was already answered 201 *)
C3_SecondSignupState ==
  (Answered({"signup"}) /\ ValidCredentials /\ NoFault /\ last.ack # "")
    => /\ last.status = 409
       /\ last.body = ErrorBody(ApiError("Email already exists", 409))
       /\ Cardinality(AccountOf(last.user.email)) = 1
       /\ \A a \in AccountOf(last.user.email) : Compare(last.ack, a.password)

(* the steps of such a signup *)
C3_SecondSignupStep ==
  \A r \in Slots :
    (req[r].kind = "signup" /\ req[r].ack # "" /\ req'[r] # req[r])
      => (accounts' = accounts /\ accountSeq' = accountSeq)

(* C3: a signup received after a signup of the same email was answered 201 is
   answered 409 "Email already exists" (store faults apart), no step of it
   changes the account table, and the table still holds exactly one account of
   that email, the first signup's: the two calls add one account, not two. *)
C3_DuplicateSignup == []C3_SecondSignupState /\ [][C3_SecondSignupStep]_vars

C3_Witness ==
  /\ Answered({"signup"})
  /\ last.ack # ""
  /\ last.status = 409
  /\ Cardinality(accounts) = 1

(* C4: a signup whose INSERT fails the uniqueness constraint of account.email,
   its pre-check having found no row, is answered 409. *)
C4_InsertConflictIs409 ==
  (Answered({"signup"}) /\ last.err = PgUniqueViolation) => last.status = 409

(* C5: no two accounts have the same email; emails are compared exactly, so a
   signup is refused as a duplicate only when that very email is in the table,
   and emails that differ in letter case are separate accounts. *)
C5_UniqueCaseSensitiveEmail ==
  /\ \A a, b \in accounts : a.email = b.email => a = b
  /\ (Answered({"signup"}) /\ last.status = 409) => last.taken
  /\ (Answered({"login", "signin"}) /\ last.status = 200) => last.taken

C5_Witness ==
  /\ \E a, b \in accounts : a.email = "a@x" /\ b.email = "A@x"
  /\ Answered({"signup"})
  /\ last.status = 201

(* the supplied password is not the one of the account of the supplied email *)
WrongPassword ==
  /\ last.taken
  /\ \A a \in AccountOf(last.user.email) : ~Compare(last.user.password, a.password)

(* C6: on /user/login the response to an unknown email and the response to a
   registered email with a wrong password are the same: status 401 and the one
   message "Invalid email or password", so neither reveals whether the email
   exists. *)
C6_LoginAntiEnumeration ==
  (Answered({"login"}) /\ ValidCredentials /\ NoFault /\ (~last.taken \/ WrongPassword))
    => /\ last.status = 401
       /\ last.body = [error |-> [message |-> "Invalid email or password", status |-> 401]]

C6_Witness ==
  /\ Answered({"login"})
  /\ ValidCredentials
  /\ NoFault
  /\ ~last.taken
  /\ accounts # {}
  /\ last.status = 401

(* C7: on /user/signin the response to an unknown email is the response to a
   registered email with a wrong password: status 401 and the same message. *)
C7_SigninAntiEnumeration ==
  (Answered({"signin"}) /\ ValidCredentials /\ NoFault /\ (~last.taken \/ WrongPassword))
    => /\ last.status = 401
       /\ last.body = ErrorBody(SigninMismatchError)

(* a step of a login or signin request: it is taken in, it moves on in its
   slot, or it is answered *)
AuthenticateStep ==
  \/ \E r \in Slots :
       /\ req'[r] # req[r]
       /\ req[r].kind \in {"login", "signin"} \/ req'[r].kind \in {"login", "signin"}
  \/ nreq' # nreq /\ req' = req /\ last'.kind \in {"login", "signin"}

(* C12: no step of a login or signin request, whether the request ends in a
   token or in an error and however many of them are served, changes the
   account table: the same accounts with the same digests after the step as
   before. *)
C12_AuthenticateReadOnly == [][AuthenticateStep => accounts' = accounts]_vars

C12_Witness ==
  /\ Answered({"login", "signin"})
  /\ last.taken
  /\ last.status = 401
  /\ Cardinality(accounts) = 1
  /\ nreq = MaxRequests

(* the body has no user object, or no or an empty email, or no or an empty
   password *)
NoCredentials(u) == ~u.present \/ u.email = "" \/ u.password = ""

(* such a request is answered 400 having looked nothing up and hashed nothing,
   and is never in flight, where the queries are issued *)
C13_RejectedState ==
  /\ (Answered({"signup", "login", "signin"}) /\ NoCredentials(last.user))
       => /\ last.status = 400
          /\ last.body = [error |-> [message |-> "Email and password are required",
                                     status |-> 400]]
          /\ last.row = NoRow
          /\ last.hashed = NoDigest
          /\ ~last.taken
  /\ \A r \in Slots :
       req[r].kind \in {"signup", "login", "signin"} => ~NoCredentials(req[r].user)

(* the step that answers it *)
C13_RejectedStep ==
  (nreq' # nreq /\ last'.kind \in {"signup", "login", "signin"}
     /\ NoCredentials(last'.user) /\ last' # last)
    => (req' = req /\ UNCHANGED <<accounts, accountSeq>>)

(* C13: a signup, login or signin whose body has no user object, or a missing
   or empty email, or a missing or empty password, is answered 400 in the step
   that takes it in: it never waits on a lookup or an insert, and the account
   table and its sequence are unchanged. *)
C13_ValidationBeforeStore == []C13_RejectedState /\ [][C13_RejectedStep]_vars

C13_Witness ==
  /\ Answered({"login"})
  /\ last.user.present
  /\ last.user.password = ""
  /\ last.status = 400
  /\ accounts # {}

(* the account of every signup answered 201 is in the table, under the email
   and with the digest of the password it was created with *)
C14_CreatedStillPresent ==
  \A e \in Emails :
    registered[e] # "" =>
      \E a \in accounts : a.email = e /\ a.id >= 1 /\ Compare(registered[e], a.password)

(* C14: an account, once created, stays in the table with its id, email and
   digest through every signup, login, signin, logout and task request: every
   step keeps every row of the account table as it is. *)
C14_AccountsOnlyGrow ==
  []C14_CreatedStillPresent /\ [][accounts \subseteq accounts']_vars

C14_Witness ==
  /\ Answered({"delete"})
  /\ last.status = 200
  /\ \E a \in accounts : a.id = last.id
  /\ registered["a@x"] # ""

(* C15: the token of every 200 of login and of signin carries the claims id
   and email, equal to the id and email of the response body, and expires one
   hour after it was minted; the id and email of the body are those of the
   stored account of the supplied email. *)
C15_TokenEmbedsIdAndEmail ==
  (Answered({"login", "signin"}) /\ last.status = 200) =>
    /\ \E a \in AccountOf(last.user.email) :
         last.body.id = a.id /\ last.body.email = a.email
    /\ last.body.token.exp = last.body.token.iat + TokenTTL
    /\ {"id", "email"} \subseteq DOMAIN last.body.token.claims
    /\ last.body.token.claims.id = last.body.id
    /\ last.body.token.claims.email = last.body.email

(* what bcrypt can make of the passwords *)
Digests == {Hash(p, salt) : p \in Passwords, salt \in Salts}

(* the keys a response body or a token's claims may have, and the messages of
   the errors: none of them a password field, none of them made from a
   password or a digest *)
BodyKeys == {"id", "email", "token", "error"}
ClaimKeys == {"id", "email", "user"}
Messages ==
  {"Email and password are required", "Email already exists", "User not found",
   "Invalid password", "Invalid email or password", PgUniqueViolation.message,
   PgFault.message}

(* C16: the password column of every account holds the bcrypt digest of the
   password its signup submitted, never the password itself; and the body of
   every response of signup, login and signin, and the claims of every token
   they mint, hold ids, emails and fixed messages only: no password and no
   digest. *)
C16_DigestNeverExposed ==
  /\ \A a \in accounts :
       /\ a.password \in Digests
       /\ registered[a.email] # "" => a.password.of = registered[a.email]
  /\ Answered({"signup", "login", "signin"}) =>
       /\ DOMAIN last.body \subseteq BodyKeys
       /\ "id" \in DOMAIN last.body => last.body.id \in 1..accountSeq
       /\ "email" \in DOMAIN last.body => last.body.email \in Emails
       /\ "error" \in DOMAIN last.body => last.body.error.message \in Messages
       /\ "token" \in DOMAIN last.body =>
            LET claims == last.body.token.claims IN
              /\ DOMAIN claims \subseteq ClaimKeys
              /\ "id" \in DOMAIN claims => claims.id \in 1..accountSeq
              /\ "email" \in DOMAIN claims => claims.email \in Emails
              /\ "user" \in DOMAIN claims => claims.user \in Emails

C16_Witness ==
  /\ Answered({"login"})
  /\ last.status = 200
  /\ last.row.password \in Digests
  /\ last.row.password.of = last.user.password
  /\ "token" \in DOMAIN last.body

----------------------------------------------------------------------------
(* Properties of the token gate *)

(* C8: a request to a protected route (task creation, logout) whose
   Authorization header is absent, malformed or not signed with the secret is
   answered 401, and the handler behind the gate does not run: no task is
   created by it. *)
C8_GateRejectsBadTokens ==
  (Answered({"logout", "create"}) /\ ~Minted(last.auth)) => last.status = 401

(* C9: a token minted at time t is admitted by the gate at every time before
   t + 1 hour and answered 401 at every time from t + 1 hour on; the gate
   admits a header exactly when it is a token signed with the secret whose
   expiry is still ahead, whatever was done with the token before. *)
C9_ValidUntilExpiry ==
  /\ Answered({"logout"}) =>
       /\ last.status \in {200, 401}
       /\ (last.status = 200) <=> Fresh(last.auth, last.at)
  /\ Minted(held) => (held.exp = held.iat + TokenTTL /\ held.iat <= now)

C9_Witness ==
  /\ Answered({"logout"})
  /\ Minted(last.auth)
  /\ last.at >= last.auth.iat + TokenTTL
  /\ last.status = 401

(* C10: a token minted by login or by signin, presented before its expiry, is
   admitted on the protected routes: POST /user/logout is answered 200 with a
   message, and POST /create with a description is answered 201 (store faults
   apart). *)
C10_FreshTokenAdmitted ==
  /\ (Answered({"logout"}) /\ Fresh(last.auth, last.at))
       => (last.status = 200 /\ DOMAIN last.body = {"message"})
  /\ (Answered({"create"}) /\ Fresh(last.auth, last.at) /\ NoFault
        /\ ~MissingDescription(last.task))
       => /\ last.status = 201
          /\ DOMAIN last.body = {"id", "description"}
          /\ last.body.description = last.task.description

C10_Witness ==
  /\ Answered({"logout"})
  /\ Fresh(last.auth, last.at)
  /\ last.auth.claims = [user |-> "a@x"]
  /\ last.status = 200

----------------------------------------------------------------------------
(* Properties of logout *)

(* the answers to a logout, and to a later request, that carry an unexpired
   token *)
C11_LogoutState ==
  /\ (Answered({"logout"}) /\ Fresh(last.auth, last.at))
       => last.body = [message |-> "Logged out successfully"]
  /\ (Answered({"logout"}) /\ last.again /\ Fresh(last.auth, last.at))
       => last.status = 200
  /\ (Answered({"create"}) /\ last.again /\ Fresh(last.auth, last.at))
       => last.status # 401

(* the step that serves a logout: the one step that takes a request in and
   answers it at once with the slots untouched *)
C11_LogoutStep ==
  (nreq' # nreq /\ req' = req /\ last'.kind = "logout")
    => UNCHANGED <<accounts, accountSeq, tasks, taskSeq>>

(* C11: a logout that carries an unexpired token is answered 200 with a
   message, the step that serves it changes neither table nor sequence, and a
   token that a logout was served for is still admitted on every later
   protected request before its expiry. *)
C11_LogoutIsNoOp == []C11_LogoutState /\ [][C11_LogoutStep]_vars

C11_Witness ==
  /\ Answered({"logout"})
  /\ last.again
  /\ last.status = 200
  /\ tasks # {}


----------------------------------------------------------------------------
(* Properties of the task routes *)

(* C17: a POST /create that does not carry an unexpired token signed with the
   secret is answered 401, whether or not it has a description (so never 400),
   and no task is inserted for it. *)
C17_CreateGated ==
  (Answered({"create"}) /\ ~Fresh(last.auth, last.at))
    => /\ last.status = 401
       /\ last.body = AuthRejectBody

(* the answer to a creation that carries an unexpired token and a description,
   the ids of the table, and the answer of GET / *)
C18_CreateState ==
  /\ (Answered({"create"}) /\ Fresh(last.auth, last.at) /\ NoFault
        /\ last.task.present /\ last.task.description # "")
       => /\ last.status = 201
          /\ DOMAIN last.body = {"id", "description"}
          /\ last.body.id \in 1..taskSeq
          /\ last.body.description = last.task.description
  /\ \A t \in tasks : t.id \in 1..taskSeq
  /\ \A t, u \in tasks : t.id = u.id => t = u
  /\ (Answered({"list"}) /\ last.status = 200) => last.body = [rows |-> tasks]

(* the step that answers such a creation adds the row of the answer, under an
   id no row had, and nothing else; and a row leaves the table only in the
   step that answers a delete of its id *)
C18_CreateStep ==
  /\ (last' # last /\ last'.kind = "create" /\ last'.status = 201
        /\ Fresh(last'.auth, last'.at))
       => /\ \A t \in tasks : t.id # last'.body.id
          /\ tasks' = tasks \cup {last'.body}
  /\ \A t \in tasks :
       t \notin tasks' => (last'.kind = "delete" /\ last'.id = t.id /\ last'.status = 200)

(* C18: a POST /create with an unexpired token and a non-empty description d is
   answered 201 {id, description: d} (store faults apart) with an id that no
   task of the table has; the row is added and every other row is kept; it
   stays in the table, and so in the answer of every GET /, until a delete of
   its id is served. *)
C18_CreateAddsTask == []C18_CreateState /\ [][C18_CreateStep]_vars

C18_Witness ==
  /\ Answered({"list"})
  /\ last.status = 200
  /\ Cardinality(last.body.rows) = 2
  /\ \A t \in last.body.rows : \E s \in served : s.kind = "create" /\ s.id = t.id

(* description.trim(), on the descriptions of TaskBodies *)
Trim(description) == IF description = " " THEN "" ELSE description

(* C19: a POST /create with an unexpired token whose task is missing, or whose
   description is missing, empty or only whitespace, is answered 400 (store
   faults apart) and inserts nothing: every task created under a token has a
   description that is not empty after trimming. *)
C19_BlankDescriptionRejected ==
  /\ (Answered({"create"}) /\ Fresh(last.auth, last.at) /\ NoFault
        /\ (~last.task.present \/ Trim(last.task.description) = ""))
       => last.status = 400
  /\ \A t \in tasks :
       (\E s \in served : s.kind = "create" /\ s.id = t.id) => Trim(t.description) # ""

(* C20: a DELETE /delete/:id whose id no task of the table has when the store
   serves it (never created, or deleted before) is answered 404 with
   error.message "Task not found" (store faults apart). *)
C20_DeleteMissingIs404 ==
  (Answered({"delete"}) /\ NoFault /\ ~last.taken)
    => /\ last.status = 404
       /\ "error" \in DOMAIN last.body
       /\ last.body.error.message = "Task not found"

(* the answer to a delete of an id that a task of the table had *)
C21_DeleteState ==
  (Answered({"delete"}) /\ NoFault /\ last.taken)
    => /\ last.status = 200
       /\ last.body = [id |-> last.id]
       /\ \A t \in tasks : t.id # last.id

(* the step that answers it removes the one row of that id and nothing else;
   and no row ever enters the table under an id the sequence has passed, so a
   deleted id does not come back *)
C21_DeleteStep ==
  /\ (last' # last /\ last'.kind = "delete" /\ last'.taken /\ last'.err # PgFault)
       => /\ Cardinality(tasks \ tasks') = 1
          /\ tasks' = {t \in tasks : t.id # last'.id}
          /\ UNCHANGED <<accounts, accountSeq, taskSeq>>
  /\ \A t \in tasks' \ tasks : t.id > taskSeq
  /\ taskSeq' >= taskSeq

(* C21: a DELETE /delete/:id of an id that a task has is answered 200 {id}
   whatever its Authorization header (store faults apart); the step removes
   exactly that task and keeps every other task and every account; the id is
   never given to a task again, so no later GET / lists it. *)
C21_DeleteExisting == []C21_DeleteState /\ [][C21_DeleteStep]_vars

C21_Witness ==
  /\ Answered({"delete"})
  /\ last.taken
  /\ last.auth = Absent
  /\ last.status = 200
  /\ tasks # {}

(* C22: every response whose status is not 2xx, of the task routes and of the
   user routes, has the body {error: {message, status}} with status the status
   of the response. *)
C22_ErrorBodyShape ==
  (last.kind # "idle" /\ last.status \notin 200..299)
    => /\ DOMAIN last.body = {"error"}
       /\ DOMAIN last.body.error = {"message", "status"}
       /\ last.body.error.status = last.status

(* the step that answers a request whose query the store failed *)
C23_FaultStep ==
  (last' # last /\ last'.kind \in {"signup", "login", "signin"} /\ last'.err = PgFault)
    => UNCHANGED <<accounts, accountSeq>>

(* the answer to such a request, and the rows of the account table *)
C23_FaultState ==
  /\ (Answered({"signup", "login", "signin"}) /\ last.err = PgFault)
       => /\ last.status = 500
          /\ last.body = [error |-> [message |-> PgFault.message, status |-> 500]]
  /\ \A a \in accounts :
       /\ a.id \in 1..accountSeq
       /\ a.email \in Emails
       /\ a.password \in Digests
       /\ registered[a.email] = a.password.of

(* C23: a signup, login or signin whose lookup or insert the store fails (for
   a reason other than a duplicate email) is answered 500 with the error body
   and no token; the step leaves the account table as it was, and every row of
   the table is a whole account of a signup answered 201. *)
C23_StoreFaultIs500 == []C23_FaultState /\ [][C23_FaultStep]_vars

C23_Witness ==
  /\ Answered({"signup"})
  /\ last.err = PgFault
  /\ last.hashed # NoDigest
  /\ last.status = 500
  /\ accounts # {}

----------------------------------------------------------------------------
(* Properties of the browser *)

(* the account the context's user stands for: same id and email, and a token
   that was signed for that account's email *)
SignedInAs(user, a) ==
  /\ user.id = a.id
  /\ user.email = a.email
  /\ Minted(user.token)
  /\ user.token.claims \in {SigninClaims(a), LoginClaims(a)}

(* C24: once a sign-in through the Authentication screen has stored its token,
   a page reload (UserProvider mounted anew over the same localStorage) leaves
   the context with a user that is not null and carries the email, the token
   and the id of the signed-in account. *)
C24_ReloadRestoresUser ==
  client.reloaded =>
    /\ client.user # Null
    /\ client.user.token = client.token
    /\ \E a \in accounts : SignedInAs(client.user, a)

(* C25: App is on screen at "/" only while localStorage holds a token or the
   context holds a user; a visit to "/" with neither is redirected to /signin,
   a visit with a token is not; a logout() of the context clears both, and
   from then on neither comes back except by a successful sign-in. *)
C25_Guarded == client.route = "/" => (client.token # Null \/ client.user # Null)

SignedOut(c) == c.token = Null /\ c.user = Null

C25_Step ==
  /\ (client' # client /\ client'.ran = Loaded("/"))
       => client'.route = IF client.token = Null THEN "/signin" ELSE "/"
  /\ (\E r \in Slots : client.pending[r].op = "logout" /\ client'.ran.op = "logout"
                        /\ client'.pending[r].op = "none")
       => SignedOut(client')
  /\ (SignedOut(client) /\ ~SignedOut(client'))
       => /\ client'.ran.op = "signin" /\ client'.ran.status \in 200..299
          /\ \E r \in Slots : /\ client.pending[r].op = "signin"
                              /\ sent[r].status \in 200..299
                              /\ client'.token = sent[r].body.token

C25_RouteGuard == []C25_Guarded /\ [][C25_Step]_vars

(* a visit to "/" after a logout was redirected to /signin *)
C25_Witness ==
  /\ client.ran = Loaded("/")
  /\ client.route = "/signin"
  /\ SignedOut(client)
  /\ last.kind = "logout"

(* C26: whatever becomes of POST /user/logout - answered 200, answered 401, or
   the fetch rejected - handleLogout ends by removing token and userEmail from
   localStorage, setting the context's user to null and navigating to /signin. *)
LogoutEnds(r) ==
  /\ client.pending[r].op = "logout"
  /\ client'.pending[r].op = "none"
  /\ client'.ran.op = "logout"

C26_Step ==
  \A r \in Slots :
    LogoutEnds(r) =>
      /\ client'.token = Null
      /\ client'.userEmail = Null
      /\ client'.user = Null
      /\ client'.route = "/signin"

C26_State ==
  client.ran.op = "logout" =>
    /\ client.ran.status \in {0, 200, 401}
    /\ SignedOut(client)
    /\ client.userEmail = Null
    /\ client.route = "/signin"

C26_LogoutEndsSession == []C26_State /\ [][C26_Step]_vars

(* handleLogout ended a session although the server refused the request *)
C26_Witness ==
  /\ client.ran = Ran("logout", 401)
  /\ last.kind = "logout"
  /\ last.status = 401
  /\ SignedOut(client)
  /\ client.route = "/signin"

(* C27: handleSubmit of Authentication stores the token and sets the user only
   on a 2xx answer to a sign-in; a failed sign-in, a failed sign-up and a
   successful sign-up leave localStorage and the user as they were (the
   successful sign-up only sets the timer that will navigate to /signin); and
   loading is false whenever handleSubmit has finished. *)
SubmitEnds(r) ==
  /\ client.pending[r].op \in {"signin", "signup"}
  /\ client'.pending[r].op = "none"
  /\ client'.ran.op = client.pending[r].op

SignedIn(r) == client.pending[r].op = "signin" /\ client'.ran.status \in 200..299

C27_Step ==
  /\ \A r \in Slots :
       SubmitEnds(r) =>
         /\ ~client'.authLoading
         /\ IF SignedIn(r)
            THEN /\ sent[r].status = client'.ran.status
                 /\ client'.token = sent[r].body.token
                 /\ client'.user = [id |-> sent[r].body.id, email |-> sent[r].body.email,
                                    token |-> sent[r].body.token]
                 /\ client'.route = "/"
            ELSE /\ client'.token = client.token
                 /\ client'.userEmail = client.userEmail
                 /\ client'.user = client.user
                 /\ client'.route = client.route
                 /\ client'.timer = (client.timer \/ client'.ran = Ran("signup", 201))
  /\ ((client'.token # client.token /\ client'.token # Null)
        \/ (client'.user # client.user /\ client'.user # Null))
       => \E r \in Slots : SubmitEnds(r) /\ SignedIn(r)

C27_State == client.ran.op \in {"signin", "signup"} => ~client.authLoading

C27_SubmitWritesOnSuccess == []C27_State /\ [][C27_Step]_vars

(* a sign-in sent from the Authentication screen was answered 200 and stored *)
C27_Witness ==
  /\ client.ran = Ran("signin", 200)
  /\ nreq > 0
  /\ last.kind = "signin"
  /\ client.token = last.body.token
  /\ client.user.token = client.token
  /\ client.route = "/"

(* C28: on the App screen a failed add or delete (an answer that is not 2xx, or
   a rejected fetch) leaves the displayed list as it was and sets the error; a
   successful add appends exactly the task the server returned, at the end; a
   successful delete removes exactly the entry of the deleted id; and loading
   is false again in every case. *)
EditEnds(r) ==
  /\ client.pending[r].op \in {"add", "delete"}
  /\ client'.pending[r].op = "none"
  /\ client'.ran.op = client.pending[r].op

C28_Step ==
  \A r \in Slots :
    EditEnds(r) =>
      /\ ~client'.loading
      /\ IF client'.ran.status \notin 200..299
         THEN client'.tasks = client.tasks /\ client'.error # NoMessage
         ELSE IF client.pending[r].op = "add"
         THEN client'.tasks = Append(client.tasks, sent[r].body)
         ELSE client'.tasks = FilterId(client.tasks, client.pending[r].id)

C28_EditsShown == [][C28_Step]_vars

(* C29: with this browser as the only writer of the task table, whenever the
   App screen is shown, its mount effect has run, none of its requests is in
   flight and none has failed, the displayed list holds exactly the tasks of
   the server's table - whatever fetches, adds and deletes came before, a
   delete of an id the table no longer holds and a doubled initial fetch
   included. *)
Quiet ==
  /\ client.route = "/"
  /\ client.effects = 0
  /\ ~client.failed
  /\ \A r \in Slots : /\ client.pending[r].op \notin AppOps
                      /\ req[r].kind \notin {"list", "create", "delete"}

C29_ListMatchesServer ==
  Quiet => /\ {client.tasks[i] : i \in DOMAIN client.tasks} = tasks
           /\ Len(client.tasks) = Cardinality(tasks)

----------------------------------------------------------------------------
(* Properties of the todo list in component state *)

(* the entries of a list that differ from x, in their order *)
Others(list, x) == SelectSeq(list, LAMBDA item : item # x)

(* the string holds a character that is not white space *)
NotBlank(s) == \E i \in DOMAIN s : s[i] # " "

(* C30: addTask appends the current input at the end of the list and clears
   the input when the input is not empty after trimming, and changes nothing
   otherwise; deleteTask(x) leaves no entry equal to x - every copy goes - and
   keeps the other entries in their order. *)
C30_Step ==
  /\ (todo' # todo /\ todo'.did.op = "addTask")
       => IF NotBlank(todo.task)
          THEN todo'.tasks = Append(todo.tasks, todo.task) /\ todo'.task = EmptyString
          ELSE todo'.tasks = todo.tasks /\ todo'.task = todo.task
  /\ (todo' # todo /\ todo'.did.op = "deleteTask")
       => /\ \A i \in DOMAIN todo'.tasks : todo'.tasks[i] # todo'.did.arg
          /\ todo'.tasks = Others(todo.tasks, todo'.did.arg)
          /\ todo'.task = todo.task

C30_State ==
  /\ \A i \in DOMAIN todo.tasks : NotBlank(todo.tasks[i])
  /\ todo.did.op = "deleteTask" => \A i \in DOMAIN todo.tasks : todo.tasks[i] # todo.did.arg

C30_AddAndDelete == []C30_State /\ [][C30_Step]_vars

(* deleteTask("a") has just run on a list that held " a" as well: " a" is kept *)
C30_Witness ==
  /\ todo.did = Called("deleteTask", <<"a">>)
  /\ todo.tasks = << <<" ", "a">> >>

====
